---- MODULE Spec2Model ----
(***************************************************************************)
(* Model of Segment/segment_cases_ml.py: the semantic segmentation of a    *)
(* call transcript into cases.                                             *)
(*                                                                         *)
(* Text is a sequence of one-character strings.  A similarity is an exact  *)
(* rational <<numerator, denominator>> in hundredths (<<28, 1>> is 0.28).  *)
(***************************************************************************)
EXTENDS Integers, Sequences, FiniteSets, TLC

\* ------------------------------------------------------------------ bounds
\* longest transcript, counted in pieces of Pieces
MaxPieces == 6

\* ---------------------------------------------------------- text (python str)
IsSpace(c) == c = " "

IsTerminal(c) == c \in {".", "!", "?"}

RECURSIVE LStrip(_)
LStrip(s) ==
    IF s = <<>> THEN s
    ELSE IF IsSpace(Head(s)) THEN LStrip(Tail(s)) ELSE s

RECURSIVE RStrip(_)
RStrip(s) ==
    IF s = <<>> THEN s
    ELSE IF IsSpace(s[Len(s)]) THEN RStrip(SubSeq(s, 1, Len(s) - 1)) ELSE s

\* str.strip()
Strip(s) == RStrip(LStrip(s))

\* index of the last character of the whitespace run that starts at k
RECURSIVE RunEnd(_, _)
RunEnd(s, k) ==
    IF k < Len(s) /\ IsSpace(s[k + 1]) THEN RunEnd(s, k + 1) ELSE k

\* re.split(r'(?<=[.!?])\s+', s): cut at every whitespace run that follows
\* a terminal character; cur is the piece being read, acc the pieces so far
RECURSIVE ReSplitFrom(_, _, _, _)
ReSplitFrom(s, k, cur, acc) ==
    IF k > Len(s) THEN Append(acc, cur)
    ELSE IF IsSpace(s[k]) /\ k > 1 /\ IsTerminal(s[k - 1])
         THEN ReSplitFrom(s, RunEnd(s, k) + 1, <<>>, Append(acc, cur))
         ELSE ReSplitFrom(s, k + 1, Append(cur, s[k]), acc)

ReSplit(s) == ReSplitFrom(s, 1, <<>>, <<>>)

\* str.split(): the maximal runs of non-whitespace characters
RECURSIVE WordsFrom(_, _, _, _)
WordsFrom(s, k, cur, acc) ==
    IF k > Len(s) THEN (IF cur = <<>> THEN acc ELSE Append(acc, cur))
    ELSE IF IsSpace(s[k])
         THEN WordsFrom(s, k + 1, <<>>, IF cur = <<>> THEN acc ELSE Append(acc, cur))
         ELSE WordsFrom(s, k + 1, Append(cur, s[k]), acc)

Words(s) == WordsFrom(s, 1, <<>>, <<>>)

\* " ".join(strs)
RECURSIVE Join(_)
Join(strs) ==
    IF strs = <<>> THEN <<>>
    ELSE IF Len(strs) = 1 THEN strs[1]
    ELSE strs[1] \o <<" ">> \o Join(Tail(strs))

\* the words of a list of strings, in order
RECURSIVE AllWords(_)
AllWords(strs) ==
    IF strs = <<>> THEN <<>> ELSE Words(Head(strs)) \o AllWords(Tail(strs))

\* ------------------------------------------------------------- tokenizer
split_into_sentences_nofilter(text) ==
    LET sents == ReSplit(Strip(text))
    IN  [k \in 1..Len(sents) |-> Strip(sents[k])]

split_into_sentences(text) ==
    LET sents == ReSplit(Strip(text))
        NonEmpty(s) == Strip(s) # <<>>
        kept == SelectSeq(sents, NonEmpty)
    IN  [k \in 1..Len(kept) |-> Strip(kept[k])]

\* ------------------------------------------------------------- coalescer
\* the loop of merge_short_sentences from sentence k on
RECURSIVE MergeLoop(_, _, _, _, _)
MergeLoop(sentences, k, buffer, merged, min_words) ==
    IF k > Len(sentences)
    THEN IF buffer # <<>> THEN Append(merged, Strip(buffer)) ELSE merged
    ELSE LET s == sentences[k]
         IN  IF Len(Words(s)) < min_words
             THEN MergeLoop(sentences, k + 1, Strip(buffer \o <<" ">> \o s),
                            merged, min_words)
             ELSE MergeLoop(sentences, k + 1, <<>>,
                            Append(IF buffer # <<>>
                                   THEN Append(merged, Strip(buffer))
                                   ELSE merged, s),
                            min_words)

\* every short sentence is emitted on its own
RECURSIVE MergeLoopNoBuffer(_, _, _, _, _)
MergeLoopNoBuffer(sentences, k, buffer, merged, min_words) ==
    IF k > Len(sentences) THEN merged
    ELSE MergeLoopNoBuffer(sentences, k + 1, buffer,
                           Append(merged, sentences[k]), min_words)

\* the buffer is not flushed at the end of the sequence
RECURSIVE MergeLoopNoFlush(_, _, _, _, _)
MergeLoopNoFlush(sentences, k, buffer, merged, min_words) ==
    IF k > Len(sentences) THEN merged
    ELSE LET s == sentences[k]
         IN  IF Len(Words(s)) < min_words
             THEN MergeLoopNoFlush(sentences, k + 1,
                                   Strip(buffer \o <<" ">> \o s),
                                   merged, min_words)
             ELSE MergeLoopNoFlush(sentences, k + 1, <<>>,
                                   Append(IF buffer # <<>>
                                          THEN Append(merged, Strip(buffer))
                                          ELSE merged, s),
                                   min_words)

merge_short_sentences_noflush(sentences, min_words) ==
    MergeLoopNoFlush(sentences, 1, <<>>, <<>>, min_words)

merge_short_sentences_nobuffer(sentences, min_words) ==
    MergeLoopNoBuffer(sentences, 1, <<>>, <<>>, min_words)

merge_short_sentences(sentences, min_words) ==
    MergeLoop(sentences, 1, <<>>, <<>>, min_words)

\* ------------------------------------------------------- embedding adapter
\* the vectors the embedding provider may return for a unit
Vectors == {<<1, 0>>, <<0, 1>>}

\* the first index of every batch: range(0, n, batch_size)
BatchStarts(n, batch_size) ==
    {b \in 0..(n - 1) : b % batch_size = 0}

\* batch_encode: embedder.encode is called once per batch and the results
\* are stacked in batch order; encode maps a batch to one vector per item
batch_encode(encode, sentences, batch_size) ==
    LET n == Len(sentences)
        BatchOf(k) == (k - 1) \div batch_size
    IN  [k \in 1..n |-> encode[BatchOf(k)][k - BatchOf(k) * batch_size]]

\* what a provider that honours its contract answers, batch by batch: one
\* vector per item of the batch
Encoders(n, batch_size) ==
    LET batches == {b \div batch_size : b \in BatchStarts(n, batch_size)}
        Size(c) == IF (c + 1) * batch_size <= n THEN batch_size
                   ELSE n - c * batch_size
    IN  {[c \in batches |-> [j \in 1..Size(c) |-> f[c * batch_size + j]]] :
            f \in [1..n -> Vectors]}

\* ---------------------------------------------------- similarity profiler
Dot(a, b) == a[1] * b[1] + a[2] * b[2]

\* np.linalg.norm, for the vectors of the model (integer norms)
Norm(a) == CHOOSE r \in 0..Dot(a, a) : r * r = Dot(a, a)

\* consecutive cosine similarities, in hundredths; 0.0 when a norm is zero
cosine_similarities(embeddings) ==
    [k \in 1..(Len(embeddings) - 1) |->
        LET a == embeddings[k]
            b == embeddings[k + 1]
            denom == Norm(a) * Norm(b)
        IN  IF denom = 0 THEN <<0, 1>> ELSE <<100 * Dot(a, b), denom>>]

\* --------------------------------------------------------------- smoother
RAdd(p, q) == IF p[2] = q[2] THEN <<p[1] + q[1], p[2]>>
              ELSE <<p[1] * q[2] + q[1] * p[2], p[2] * q[2]>>

RECURSIVE RSum(_, _, _)
RSum(arr, from, to) ==
    IF from > to THEN <<0, 1>>
    ELSE IF from = to THEN arr[from]
    ELSE RAdd(arr[from], RSum(arr, from + 1, to))

\* np.pad(array, (pad, pad), mode='edge')
EdgePad(array, pad) ==
    [k \in 1..(Len(array) + 2 * pad) |->
        IF k <= pad THEN array[1]
        ELSE IF k > pad + Len(array) THEN array[Len(array)]
        ELSE array[k - pad]]

\* np.convolve(padded, np.ones(window)/window, mode='valid')
ConvolveValid(padded, window) ==
    [k \in 1..(Len(padded) - window + 1) |->
        LET s == RSum(padded, k, k + window - 1)
        IN  <<s[1], s[2] * window>>]

smooth(array, window) ==
    IF window <= 1 THEN array
    ELSE LET pad == window \div 2
             padded == EdgePad(array, pad)
         IN  ConvolveValid(padded, window)

\* ----------------------------------------------------- boundary extractor
\* the comparison is turned round
RLess_flipped(q, threshold) == q[1] > threshold * q[2]

\* a value equal to the threshold counts as low
RLess_orequal(q, threshold) == q[1] <= threshold * q[2]

\* value < threshold, threshold in hundredths
RLess(q, threshold) == q[1] < threshold * q[2]

\* np.where(smoothed_sims < threshold)[0], 0-based, ascending
Lows(smoothed_sims, threshold) ==
    LET idx == [k \in 1..Len(smoothed_sims) |-> k - 1]
        Low(j) == RLess(smoothed_sims[j + 1], threshold)
    IN  SelectSeq(idx, Low)

RECURSIVE KeepAscending(_, _, _)
KeepAscending(lows, k, boundaries) ==
    IF k > Len(lows) THEN boundaries
    ELSE IF lows[k] - boundaries[Len(boundaries)] > 0
         THEN KeepAscending(lows, k + 1, Append(boundaries, lows[k]))
         ELSE KeepAscending(lows, k + 1, boundaries)

find_boundaries(smoothed_sims, threshold) ==
    LET lows == Lows(smoothed_sims, threshold)
    IN  IF Len(lows) = 0 THEN <<>>
        ELSE KeepAscending(lows, 2, <<lows[1]>>)

\* ------------------------------------------------ segment length enforcer
\* a range is <<start, end>>, 0-based unit indices, inclusive
RECURSIVE BuildSegs(_, _, _, _, _)
BuildSegs(n, boundaries, k, start, segs) ==
    IF k > Len(boundaries) THEN Append(segs, <<start, n - 1>>)
    ELSE BuildSegs(n, boundaries, k + 1, boundaries[k] + 1,
                   Append(segs, <<start, boundaries[k]>>))

\* the next range starts at the boundary unit itself
RECURSIVE BuildSegsOverlap(_, _, _, _, _)
BuildSegsOverlap(n, boundaries, k, start, segs) ==
    IF k > Len(boundaries) THEN Append(segs, <<start, n - 1>>)
    ELSE BuildSegsOverlap(n, boundaries, k + 1, boundaries[k],
                          Append(segs, <<start, boundaries[k]>>))

materialize_overlap(sentences, boundaries) ==
    BuildSegsOverlap(Len(sentences), boundaries, 1, 0, <<>>)

\* the break is put before unit b instead of after it
RECURSIVE BuildSegsShifted(_, _, _, _, _)
BuildSegsShifted(n, boundaries, k, start, segs) ==
    IF k > Len(boundaries) THEN Append(segs, <<start, n - 1>>)
    ELSE BuildSegsShifted(n, boundaries, k + 1, boundaries[k],
                          Append(segs, <<start, boundaries[k] - 1>>))

materialize_shifted(sentences, boundaries) ==
    BuildSegsShifted(Len(sentences), boundaries, 1, 0, <<>>)

\* lines 75-81 of enforce_min_segment_length
materialize(sentences, boundaries) ==
    BuildSegs(Len(sentences), boundaries, 1, 0, <<>>)

RECURSIVE WordSum(_, _, _)
WordSum(sentences, s, e) ==
    IF s > e THEN 0
    ELSE Len(Words(sentences[s + 1])) + WordSum(sentences, s + 1, e)

\* the characters of the units are counted instead of their words
RECURSIVE CharSum(_, _, _)
CharSum(sentences, s, e) ==
    IF s > e THEN 0
    ELSE Len(sentences[s + 1]) + CharSum(sentences, s + 1, e)

seg_word_count_chars(sentences, seg) == CharSum(sentences, seg[1], seg[2])

\* lines 84-86
seg_word_count(sentences, seg) == WordSum(sentences, seg[1], seg[2])

RemoveAt(seq, k) ==
    [j \in 1..(Len(seq) - 1) |-> IF j < k THEN seq[j] ELSE seq[j + 1]]

\* the previous range keeps its own end: the units of range i are dropped
merge_into_previous_drop(segs, i) ==
    RemoveAt(segs, i + 1)

\* the previous range is extended but range i is not removed
merge_into_previous_nopop(segs, i) ==
    [segs EXCEPT ![i] = <<segs[i][1], segs[i + 1][2]>>]

\* the previous range is replaced by range i
merge_into_previous_keepcur(segs, i) ==
    RemoveAt([segs EXCEPT ![i] = segs[i + 1]], i + 1)

\* lines 94-97: segs[i-1] = (s_prev, e_cur); segs.pop(i)   (i is 0-based)
merge_into_previous(segs, i) ==
    RemoveAt([segs EXCEPT ![i] = <<segs[i][1], segs[i + 1][2]>>], i + 1)

\* the merged range takes the start of the next range
merge_into_next_keepstart(segs, i) ==
    RemoveAt([segs EXCEPT ![i + 1] = segs[i + 2]], i + 2)

\* lines 101-104: segs[i] = (s_cur, e_next); segs.pop(i+1)
merge_into_next(segs, i) ==
    RemoveAt([segs EXCEPT ![i + 1] = <<segs[i + 1][1], segs[i + 2][2]>>], i + 2)

\* ---------------------------------------------------- segment assembler
\* " ".join(sentences[s:e+1]).strip()
render(sentences, seg) ==
    Strip(Join(SubSeq(sentences, seg[1] + 1, seg[2] + 1)))

\* ------------------------------------------------------------ the inputs
Pieces == {<<"a", ".", " ">>, <<"b", " ">>, <<" ">>}

RECURSIVE Flatten(_)
Flatten(ps) == IF ps = <<>> THEN <<>> ELSE Head(ps) \o Flatten(Tail(ps))

Transcripts ==
    {Flatten(ps) : ps \in UNION {[1..k -> Pieces] : k \in 0..MaxPieces}}

MergeMinWordsArgs == {-1, 2, 3}

SmoothWindowArgs == {-1, 1, 2, 3}

SimThresholdArgs == {28, 50}

MinSegmentWordsArgs == {-1, 0, 2, 9}

\* segment_transcript returns a single segment up to this many units
ShortCircuitUnits == 4

\* batch_size passed to batch_encode by segment_transcript
EncodeBatchSize == 64

\* ------------------------------------------------------------- the state
VARIABLES
    pc,                 \* position in segment_transcript
    transcript,         \* the arguments of the call
    merge_min_words,
    smooth_window,
    sim_threshold,
    min_segment_words,
    sentences,          \* sentences, then the coalesced units
    embedder,           \* TRUE once SentenceTransformer(...) was constructed
    encode_calls,       \* calls of embedder.encode
    embeddings,
    sims,
    smoothed,
    boundaries,
    segs,               \* the working list of enforce_min_segment_length
    i,                  \* its scan index
    segments,           \* the value returned
    batch_size,         \* batch_encode: its batch_size argument
    provider,           \* the vector the embedding provider gives a text
    embs,               \* batch_encode: the results of the batches so far
    batch_start,        \* batch_encode: its loop index
    sent,               \* the texts handed to embedder.encode, in order
    fault,              \* what the embedding provider did wrong, if anything
    batch_encode_calls, \* calls of batch_encode
    pipeline,           \* position in run_pipeline
    cases_json          \* the cases written to cases.json

vars == <<pc, transcript, merge_min_words, smooth_window, sim_threshold,
          min_segment_words, sentences, embedder, encode_calls, embeddings,
          sims, smoothed, boundaries, segs, i, segments, batch_size,
          provider, embs, batch_start, sent, fault, batch_encode_calls,
          pipeline, cases_json>>

\* the state of run_pipeline around the call of segment_transcript
caller == <<pipeline, cases_json>>

\* the state of the embedding adapter
adapter == <<batch_size, provider, embs, batch_start, fault>>

args == <<transcript, merge_min_words, smooth_window, sim_threshold,
          min_segment_words>>

Init ==
    /\ pc = "start"
    /\ transcript \in Transcripts
    /\ merge_min_words \in MergeMinWordsArgs
    /\ smooth_window \in SmoothWindowArgs
    /\ sim_threshold \in SimThresholdArgs
    /\ min_segment_words \in MinSegmentWordsArgs
    /\ sentences = <<>>
    /\ embedder = FALSE
    /\ encode_calls = 0
    /\ embeddings = <<>>
    /\ sims = <<>>
    /\ smoothed = <<>>
    /\ boundaries = <<>>
    /\ segs = <<>>
    /\ i = 0
    /\ segments = <<>>
    /\ batch_size = EncodeBatchSize
    /\ provider = <<>>
    /\ embs = <<>>
    /\ batch_start = 0
    /\ sent = <<>>
    /\ fault = "none"
    /\ batch_encode_calls = 0
    /\ pipeline = "segmenting"
    /\ cases_json = "absent"

\* line 119
Tokenize ==
    /\ pc = "start"
    /\ sentences' = split_into_sentences(transcript)
    /\ pc' = "split"
    /\ UNCHANGED <<caller, adapter, sent, batch_encode_calls,
                   args, embedder, encode_calls, embeddings, sims, smoothed,
                   boundaries, segs, i, segments>>

\* lines 120-121
ReturnEmpty ==
    /\ pc = "split"
    /\ Len(sentences) = 0
    /\ segments' = <<>>
    /\ pc' = "done"
    /\ UNCHANGED <<caller, adapter, sent, batch_encode_calls,
                   args, sentences, embedder, encode_calls, embeddings, sims,
                   smoothed, boundaries, segs, i>>

\* line 124
Coalesce ==
    /\ pc = "split"
    /\ Len(sentences) # 0
    /\ sentences' = merge_short_sentences(sentences, merge_min_words)
    /\ pc' = "merged"
    /\ UNCHANGED <<caller, adapter, sent, batch_encode_calls,
                   args, embedder, encode_calls, embeddings, sims, smoothed,
                   boundaries, segs, i, segments>>

is_short_strict(units) == Len(units) < ShortCircuitUnits

\* line 127
is_short(units) == Len(units) <= ShortCircuitUnits

\* lines 127-128
ReturnSingle ==
    /\ pc = "merged"
    /\ is_short(sentences)
    /\ segments' = <<Join(sentences)>>
    /\ pc' = "done"
    /\ UNCHANGED <<caller, adapter, sent, batch_encode_calls,
                   args, sentences, embedder, encode_calls, embeddings, sims,
                   smoothed, boundaries, segs, i>>

\* lines 131-132
Encode ==
    /\ pc = "merged"
    /\ ~is_short(sentences)
    /\ embedder' = TRUE
    /\ \E encode \in Encoders(Len(sentences), EncodeBatchSize) :
          /\ embeddings' = batch_encode(encode, sentences, EncodeBatchSize)
          /\ encode_calls' = encode_calls + Cardinality(DOMAIN encode)
    /\ sent' = sent \o sentences
    /\ batch_encode_calls' = batch_encode_calls + 1
    /\ pc' = "embedded"
    /\ UNCHANGED <<caller, adapter, args, sentences, sims, smoothed,
                   boundaries, segs, i, segments>>

\* line 134
Similarities ==
    /\ pc = "embedded"
    /\ sims' = cosine_similarities(embeddings)
    /\ pc' = "sims"
    /\ UNCHANGED <<caller, adapter, sent, batch_encode_calls,
                   args, sentences, embedder, encode_calls, embeddings,
                   smoothed, boundaries, segs, i, segments>>

\* line 135
Smooth ==
    /\ pc = "sims"
    /\ smoothed' = smooth(sims, smooth_window)
    /\ pc' = "smoothed"
    /\ UNCHANGED <<caller, adapter, sent, batch_encode_calls,
                   args, sentences, embedder, encode_calls, embeddings, sims,
                   boundaries, segs, i, segments>>

\* lines 137-140
FindBoundaries ==
    /\ pc = "smoothed"
    /\ boundaries' = find_boundaries(smoothed, sim_threshold)
    /\ pc' = "boundaries"
    /\ UNCHANGED <<caller, adapter, sent, batch_encode_calls,
                   args, sentences, embedder, encode_calls, embeddings, sims,
                   smoothed, segs, i, segments>>

\* lines 143, 75-88: enter enforce_min_segment_length
Materialize ==
    /\ pc = "boundaries"
    /\ segs' = materialize(sentences, boundaries)
    /\ i' = 0
    /\ pc' = "enforce"
    /\ UNCHANGED <<caller, adapter, sent, batch_encode_calls,
                   args, sentences, embedder, encode_calls, embeddings, sims,
                   smoothed, boundaries, segments>>

Undersized(k) == seg_word_count(sentences, segs[k + 1]) < min_segment_words

\* the scan does not go back to the merged range
MergePrevious_stay ==
    /\ pc = "enforce"
    /\ i < Len(segs)
    /\ Undersized(i)
    /\ i > 0
    /\ segs' = merge_into_previous(segs, i)
    /\ i' = i
    /\ UNCHANGED <<caller, adapter, sent, batch_encode_calls,
                   pc, args, sentences, embedder, encode_calls, embeddings,
                   sims, smoothed, boundaries, segments>>

\* lines 92-98
MergePrevious ==
    /\ pc = "enforce"
    /\ i < Len(segs)
    /\ Undersized(i)
    /\ i > 0
    /\ segs' = merge_into_previous(segs, i)
    /\ i' = IF i - 1 > 0 THEN i - 1 ELSE 0
    /\ UNCHANGED <<caller, adapter, sent, batch_encode_calls,
                   pc, args, sentences, embedder, encode_calls, embeddings,
                   sims, smoothed, boundaries, segments>>

\* lines 99-104
MergeNext ==
    /\ pc = "enforce"
    /\ i < Len(segs)
    /\ Undersized(i)
    /\ ~(i > 0)
    /\ i + 1 < Len(segs)
    /\ segs' = merge_into_next(segs, i)
    /\ i' = i
    /\ UNCHANGED <<caller, adapter, sent, batch_encode_calls,
                   pc, args, sentences, embedder, encode_calls, embeddings,
                   sims, smoothed, boundaries, segments>>

\* lines 105-107
KeepSingle ==
    /\ pc = "enforce"
    /\ i < Len(segs)
    /\ Undersized(i)
    /\ ~(i > 0)
    /\ ~(i + 1 < Len(segs))
    /\ i' = i + 1
    /\ UNCHANGED <<caller, adapter, sent, batch_encode_calls,
                   pc, args, sentences, embedder, encode_calls, embeddings,
                   sims, smoothed, boundaries, segs, segments>>

\* lines 108-109
Advance ==
    /\ pc = "enforce"
    /\ i < Len(segs)
    /\ ~Undersized(i)
    /\ i' = i + 1
    /\ UNCHANGED <<caller, adapter, sent, batch_encode_calls,
                   pc, args, sentences, embedder, encode_calls, embeddings,
                   sims, smoothed, boundaries, segs, segments>>

\* lines 89, 110: the loop ends and the ranges are returned
ReturnRanges ==
    /\ pc = "enforce"
    /\ ~(i < Len(segs))
    /\ pc' = "ranges"
    /\ UNCHANGED <<caller, adapter, sent, batch_encode_calls,
                   args, sentences, embedder, encode_calls, embeddings, sims,
                   smoothed, boundaries, segs, i, segments>>

\* lines 146-151
Assemble ==
    /\ pc = "ranges"
    /\ segments' = [k \in 1..Len(segs) |-> render(sentences, segs[k])]
    /\ pc' = "done"
    /\ UNCHANGED <<caller, adapter, sent, batch_encode_calls,
                   args, sentences, embedder, encode_calls, embeddings, sims,
                   smoothed, boundaries, segs, i>>

Next ==
    \/ Tokenize
    \/ ReturnEmpty
    \/ Coalesce
    \/ ReturnSingle
    \/ Encode
    \/ Similarities
    \/ Smooth
    \/ FindBoundaries
    \/ Materialize
    \/ MergePrevious
    \/ MergeNext
    \/ KeepSingle
    \/ Advance
    \/ ReturnRanges
    \/ Assemble

Spec == Init /\ [][Next]_vars

\* ------------------------------------ the embedding adapter, batch by batch
\* most units of a transcript given to the adapter
MaxUnits == 6

AdapterPieces == {<<"a", ".", " ">>, <<"b", " ", "a", ".", " ">>}

\* transcripts with more units than the short circuit takes
AdapterTranscripts ==
    {Flatten(ps) : ps \in UNION {[1..k -> AdapterPieces] :
                                    k \in (ShortCircuitUnits + 1)..MaxUnits}}

UnitTexts == {<<"a", ".">>, <<"b", " ", "a", ".">>}

\* a provider gives the same vector for the same text within a run
Providers == [UnitTexts -> Vectors]

\* batch_size of batch_encode: small ones, and the one segment_transcript uses
BatchSizeArgs == {2, 3, EncodeBatchSize}

AdapterInit ==
    /\ pc = "start"
    /\ transcript \in AdapterTranscripts
    /\ merge_min_words \in {m \in MergeMinWordsArgs : m <= 1}
    /\ smooth_window \in {1, 2}
    /\ sim_threshold \in {28}
    /\ min_segment_words \in {0, 2, 9}
    /\ sentences = <<>>
    /\ embedder = FALSE
    /\ encode_calls = 0
    /\ embeddings = <<>>
    /\ sims = <<>>
    /\ smoothed = <<>>
    /\ boundaries = <<>>
    /\ segs = <<>>
    /\ i = 0
    /\ segments = <<>>
    /\ batch_size \in BatchSizeArgs
    /\ provider \in Providers
    /\ embs = <<>>
    /\ batch_start = 0
    /\ sent = <<>>
    /\ fault = "none"
    /\ batch_encode_calls = 0
    /\ pipeline = "segmenting"
    /\ cases_json = "absent"

\* the batch is one item short
batch_of_short(units, start, size) ==
    SubSeq(units, start + 1,
           IF start + size - 1 <= Len(units) THEN start + size - 1 ELSE Len(units))

\* line 32: sentences[i:i+batch_size]
batch_of(units, start, size) ==
    SubSeq(units, start + 1,
           IF start + size <= Len(units) THEN start + size ELSE Len(units))

\* embedder.encode(batch) of a provider that honours its contract
encode_batch(batch) == [k \in 1..Len(batch) |-> provider[batch[k]]]

\* lines 131-132, 30: the embedder is constructed and batch_encode entered
BeginEncode ==
    /\ pc = "merged"
    /\ ~is_short(sentences)
    /\ embedder' = TRUE
    /\ batch_encode_calls' = batch_encode_calls + 1
    /\ embs' = <<>>
    /\ batch_start' = 0
    /\ pc' = "encoding"
    /\ UNCHANGED <<caller, args, sentences, encode_calls, embeddings, sims,
                   smoothed, boundaries, segs, i, segments, batch_size,
                   provider, sent, fault>>

\* lines 31-34: one batch, answered with one vector per item
EncodeBatch ==
    /\ pc = "encoding"
    /\ batch_start < Len(sentences)
    /\ LET batch == batch_of(sentences, batch_start, batch_size)
       IN  /\ sent' = sent \o batch
           /\ embs' = Append(embs, encode_batch(batch))
    /\ encode_calls' = encode_calls + 1
    /\ batch_start' = batch_start + batch_size
    /\ UNCHANGED <<caller, pc, args, sentences, embedder, embeddings, sims,
                   smoothed, boundaries, segs, i, segments, batch_size,
                   provider, fault, batch_encode_calls>>

\* lines 31-34: one batch, answered with one vector too few
EncodeBatchShort ==
    /\ pc = "encoding"
    /\ batch_start < Len(sentences)
    /\ fault = "none"
    /\ LET batch == batch_of(sentences, batch_start, batch_size)
           emb == encode_batch(batch)
       IN  /\ Len(batch) >= 2
           /\ sent' = sent \o batch
           /\ embs' = Append(embs, SubSeq(emb, 1, Len(emb) - 1))
    /\ fault' = "short"
    /\ encode_calls' = encode_calls + 1
    /\ batch_start' = batch_start + batch_size
    /\ UNCHANGED <<caller, pc, args, sentences, embedder, embeddings, sims,
                   smoothed, boundaries, segs, i, segments, batch_size,
                   provider, batch_encode_calls>>

\* lines 31-34: one batch, answered with one vector too many
EncodeBatchLong ==
    /\ pc = "encoding"
    /\ batch_start < Len(sentences)
    /\ fault = "none"
    /\ LET batch == batch_of(sentences, batch_start, batch_size)
           emb == encode_batch(batch)
       IN  /\ sent' = sent \o batch
           /\ embs' = Append(embs, Append(emb, emb[Len(emb)]))
    /\ fault' = "long"
    /\ encode_calls' = encode_calls + 1
    /\ batch_start' = batch_start + batch_size
    /\ UNCHANGED <<caller, pc, args, sentences, embedder, embeddings, sims,
                   smoothed, boundaries, segs, i, segments, batch_size,
                   provider, batch_encode_calls>>

\* line 33: embedder.encode raises; nothing in batch_encode or
\* segment_transcript catches it
EncodeBatchRaises ==
    /\ pc = "encoding"
    /\ batch_start < Len(sentences)
    /\ fault = "none"
    /\ sent' = sent \o batch_of(sentences, batch_start, batch_size)
    /\ fault' = "raise"
    /\ encode_calls' = encode_calls + 1
    /\ pc' = "raised"
    /\ UNCHANGED <<caller, args, sentences, embedder, embeddings, sims,
                   smoothed, boundaries, segs, i, segments, batch_size,
                   provider, embs, batch_start, batch_encode_calls>>

\* line 35: np.vstack(embs), returned to line 132
Stack ==
    /\ pc = "encoding"
    /\ ~(batch_start < Len(sentences))
    /\ embeddings' = Flatten(embs)
    /\ pc' = "embedded"
    /\ UNCHANGED <<caller, adapter, args, sentences, embedder, encode_calls,
                   sims, smoothed, boundaries, segs, i, segments, sent,
                   batch_encode_calls>>

\* line 86: every unit index of the scanned range exists
ScanInRange ==
    /\ pc = "enforce"
    /\ i < Len(segs)
    /\ segs[i + 1][2] <= Len(sentences) - 1

\* line 86: sentences[i] raises IndexError, which nothing catches
ScanRaises ==
    /\ pc = "enforce"
    /\ i < Len(segs)
    /\ ~(segs[i + 1][2] <= Len(sentences) - 1)
    /\ pc' = "raised"
    /\ UNCHANGED <<caller, adapter, args, sentences, embedder, encode_calls,
                   embeddings, sims, smoothed, boundaries, segs, i, segments,
                   sent, batch_encode_calls>>

\* the steps of the merge loop, taken when line 86 does not raise
ScanMergePrevious == ScanInRange /\ MergePrevious

ScanMergeNext == ScanInRange /\ MergeNext

ScanKeepSingle == ScanInRange /\ KeepSingle

ScanAdvance == ScanInRange /\ Advance

\* ------------------------------------------------------------ run_pipeline
\* the cases are written although segment_transcript raised
PipelineFallsBack ==
    /\ pc = "raised"
    /\ pipeline = "segmenting"
    /\ cases_json' = segments
    /\ pipeline' = "saved"
    /\ UNCHANGED <<pc, adapter, args, sentences, embedder, encode_calls,
                   embeddings, sims, smoothed, boundaries, segs, i, segments,
                   sent, batch_encode_calls>>

\* pipeline.py lines 84-90: the exception of segment_transcript leaves
\* run_pipeline, which has no handler
PipelineFails ==
    /\ pc = "raised"
    /\ pipeline = "segmenting"
    /\ pipeline' = "failed"
    /\ UNCHANGED <<pc, cases_json, adapter, args, sentences, embedder,
                   encode_calls, embeddings, sims, smoothed, boundaries, segs,
                   i, segments, sent, batch_encode_calls>>

\* pipeline.py lines 92-95: cases.json is written
SaveCases ==
    /\ pc = "done"
    /\ pipeline = "segmenting"
    /\ cases_json' = segments
    /\ pipeline' = "saved"
    /\ UNCHANGED <<pc, adapter, args, sentences, embedder, encode_calls,
                   embeddings, sims, smoothed, boundaries, segs, i, segments,
                   sent, batch_encode_calls>>

\* pipeline.py lines 99-106: process_cases is started
Summarize ==
    /\ pipeline = "saved"
    /\ pipeline' = "summarizing"
    /\ UNCHANGED <<pc, cases_json, adapter, args, sentences, embedder,
                   encode_calls, embeddings, sims, smoothed, boundaries, segs,
                   i, segments, sent, batch_encode_calls>>

NextAdapter ==
    \/ Tokenize
    \/ Coalesce
    \/ BeginEncode
    \/ EncodeBatch
    \/ EncodeBatchShort
    \/ EncodeBatchLong
    \/ EncodeBatchRaises
    \/ Stack
    \/ Similarities
    \/ Smooth
    \/ FindBoundaries
    \/ Materialize
    \/ ScanMergePrevious
    \/ ScanMergeNext
    \/ ScanKeepSingle
    \/ ScanAdvance
    \/ ScanRaises
    \/ ReturnRanges
    \/ Assemble
    \/ PipelineFails
    \/ SaveCases
    \/ Summarize

\* run_pipeline and segment_transcript with a provider that may fail
AdapterSpec == AdapterInit /\ [][NextAdapter]_vars

\* ================================================================ claims

\* contiguous, ascending, non-empty ranges that cover 0..n-1 exactly once
IsPartition(rs, n) ==
    /\ Len(rs) >= 1
    /\ rs[1][1] = 0
    /\ rs[Len(rs)][2] = n - 1
    /\ \A k \in 1..Len(rs) : rs[k][1] <= rs[k][2]
    /\ \A k \in 1..(Len(rs) - 1) : rs[k + 1][1] = rs[k][2] + 1

\* C1: in every run that reaches the Length Enforcer, whatever the
\* smooth_window, sim_threshold and min_segment_words, the ranges held right
\* after materialization, after every merge step and when handed to the
\* Assembler are contiguous, ascending, non-empty and cover [0, n-1] once.
C1_RangeInvariant ==
    pc \in {"enforce", "ranges"} => IsPartition(segs, Len(sentences))

\* C2: when enforce_min_segment_length returns, either exactly one range
\* remains or every remaining range has at least min_words words.
C2_MinimumSize ==
    pc = "ranges" =>
        \/ Len(segs) = 1
        \/ \A k \in 1..Len(segs) :
              WordSum(sentences, segs[k][1], segs[k][2]) >= min_segment_words

\* several ranges were merged away and more than one range is returned
C2_Witness ==
    /\ pc = "ranges"
    /\ min_segment_words > 0
    /\ Len(segs) >= 2
    /\ Len(segs) + 2 <= Len(boundaries) + 1

\* C3: the words of the returned segments, in order, are the words of the
\* coalesced units, in order: none dropped, duplicated or reordered.
C3_Coverage ==
    pc = "done" => AllWords(segments) = AllWords(sentences)

\* a run through the Enforcer that merged ranges and returned several segments
C3_Witness ==
    /\ pc = "done"
    /\ embedder
    /\ Len(segments) >= 2
    /\ Len(segments) < Len(boundaries) + 1
    /\ \E k \in 1..Len(sentences) : Len(Words(sentences[k])) >= 2

\* iterations the merge loop can still make, at most
Rank(rs, k) == 2 * Len(rs) - k

MergeLoopStep ==
    (pc = "enforce" /\ pc' = "enforce") =>
        /\ \/ Len(segs') = Len(segs) - 1 /\ Len(segs') >= 1
           \/ i' = i + 1 /\ segs' = segs
        /\ Rank(segs', i') < Rank(segs, i)
        /\ Rank(segs', i') >= 0

\* C4: the merge loop of enforce_min_segment_length terminates: every
\* iteration either merges, leaving exactly one range fewer and at least
\* one, or advances the scan index, so that a natural number bounding the
\* remaining iterations strictly decreases with every iteration.
C4_Termination == [][MergeLoopStep]_vars

\* the loop was left after merging into a previous and into a next range
C4_Witness ==
    /\ pc = "ranges"
    /\ Len(segs) + 3 <= Len(boundaries) + 1
    /\ i = Len(segs)

UnitWords(k) == Len(Words(sentences[k]))

\* C5 as stated: every unit emitted by merge_short_sentences other than the
\* last one has at least merge_min_words words.
C5_AllButLastFull ==
    pc = "merged" =>
        \A k \in 1..(Len(sentences) - 1) : UnitWords(k) >= merge_min_words

\* C5, amended: a unit with fewer than merge_min_words words is either the
\* last unit or directly followed by a unit of at least merge_min_words words.
C5_ShortUnitThenFull ==
    pc = "merged" =>
        \A k \in 1..(Len(sentences) - 1) :
            UnitWords(k) < merge_min_words => UnitWords(k + 1) >= merge_min_words

\* a flushed buffer that is too short and is not the last unit
C5_Witness ==
    /\ pc = "merged"
    /\ \E k \in 1..(Len(sentences) - 1) : UnitWords(k) < merge_min_words

\* C6: the words of the units emitted by merge_short_sentences, in order,
\* are the words of the input sentences, in order, which are the words of
\* the transcript.
C6_NoTextLost ==
    pc = "merged" =>
        /\ AllWords(sentences) = AllWords(split_into_sentences(transcript))
        /\ AllWords(sentences) = Words(transcript)

\* short sentences were buffered, in the middle and at the end
C6_Witness ==
    /\ pc = "merged"
    /\ Len(sentences) >= 3
    /\ Len(sentences) + 2 <= Len(split_into_sentences(transcript))
    /\ UnitWords(Len(sentences)) < merge_min_words

\* C7: with 1 to 4 coalesced units, segment_transcript returns exactly one
\* segment, the space-joined units, and the embedding provider is neither
\* constructed nor called: no later stage runs.
C7_ShortCircuit ==
    (pc \notin {"start", "split"} /\ Len(sentences) \in 1..4) =>
        /\ ~embedder
        /\ encode_calls = 0
        /\ pc \in {"merged", "done"}
        /\ sims = <<>> /\ smoothed = <<>> /\ boundaries = <<>> /\ segs = <<>>
        /\ pc = "done" => segments = <<Join(sentences)>>

\* a run with exactly 4 units has returned
C7_Witness ==
    /\ pc = "done"
    /\ Len(sentences) = 4
    /\ Len(segments) = 1

WhitespaceOnly(text) == \A k \in 1..Len(text) : text[k] = " "

\* C8: for an empty or whitespace-only transcript segment_transcript
\* returns an empty list, without coalescing, embedding or segmenting.
C8_EmptyInput ==
    WhitespaceOnly(transcript) =>
        /\ pc \in {"start", "split", "done"}
        /\ sentences = <<>>
        /\ ~embedder
        /\ encode_calls = 0
        /\ pc = "done" => segments = <<>>

\* a whitespace-only transcript has returned
C8_Witness ==
    /\ pc = "done"
    /\ transcript # <<>>
    /\ WhitespaceOnly(transcript)
    /\ segments = <<>>

\* C9: for every non-empty similarity series and every smooth_window >= 2,
\* odd or even, smooth returns a series of the length of its input.
C9_SameLength ==
    (pc = "smoothed" /\ smooth_window >= 2) => Len(smoothed) = Len(sims)

\* C10: a call with smooth_window < 0, min_segment_words < 0 or
\* merge_min_words < 0 is rejected before any tokenization, coalescing,
\* embedding or segmentation, and returns no segment list.
C10_Rejected ==
    (smooth_window < 0 \/ min_segment_words < 0 \/ merge_min_words < 0) =>
        pc = "start"

\* C11: if the embedding provider returns a number of vectors different
\* from the number of units, segment_transcript ends in an error: it never
\* computes similarities, boundaries or segments from those embeddings and
\* returns no segment list.
C11_MismatchFatal ==
    pc \in {"sims", "smoothed", "boundaries", "enforce", "ranges", "done"} =>
        Len(embeddings) = Len(sentences)

\* C12: if embedder.encode raises in any batch, segment_transcript computes
\* and returns nothing more, the error leaves run_pipeline, cases.json is not
\* written and summarization is not started.
C12_AtomicFailure ==
    fault = "raise" =>
        /\ pc = "raised"
        /\ embeddings = <<>> /\ sims = <<>> /\ smoothed = <<>>
        /\ boundaries = <<>> /\ segs = <<>> /\ segments = <<>>
        /\ pipeline \in {"segmenting", "failed"}
        /\ cases_json = "absent"

\* the error of a later batch, after a batch that succeeded, has left
\* run_pipeline
C12_Witness ==
    /\ fault = "raise"
    /\ Len(embs) >= 1
    /\ pipeline = "failed"

\* C19: batch_encode is called at most once per run, with all the units;
\* with a provider that honours its contract every unit is handed to the
\* provider exactly once, in order, and the result has one vector per unit,
\* the vector of unit k at position k, as a single unbatched call gives.
C19_BatchingTransparent ==
    /\ batch_encode_calls <= 1
    /\ (pc = "embedded" /\ fault = "none") =>
          /\ batch_encode_calls = 1
          /\ sent = sentences
          /\ Len(embeddings) = Len(sentences)
          /\ \A k \in 1..Len(sentences) : embeddings[k] = provider[sentences[k]]
          /\ embeddings = encode_batch(sentences)

\* several batches, the last one not full, and two different vectors
C19_Witness ==
    /\ pc = "embedded"
    /\ fault = "none"
    /\ Len(embs) >= 3
    /\ Len(embs[Len(embs)]) < batch_size
    /\ \E j, k \in 1..Len(embeddings) : embeddings[j] # embeddings[k]

\* thresholds at, between and beyond the values a smoothed series takes
ProbeThresholds == {-1, 0, 28, 33, 34, 50, 51, 67, 100, 101}

SeqRange(q) == {q[k] : k \in 1..Len(q)}

\* C13: for a fixed smoothed series and thresholds t1 <= t2, the boundaries
\* find_boundaries returns for t1 are among those it returns for t2, so a
\* higher threshold never gives fewer candidate boundaries.
C13_ThresholdMonotone ==
    pc = "smoothed" =>
        \A t1, t2 \in ProbeThresholds :
            t1 <= t2 =>
                /\ SeqRange(find_boundaries(smoothed, t1))
                      \subseteq SeqRange(find_boundaries(smoothed, t2))
                /\ Len(find_boundaries(smoothed, t1))
                      <= Len(find_boundaries(smoothed, t2))

\* a higher threshold adds boundaries to a list that is not empty
C13_Witness ==
    /\ pc = "smoothed"
    /\ \E t1, t2 \in ProbeThresholds :
          /\ t1 < t2
          /\ Len(find_boundaries(smoothed, t1)) > 0
          /\ Len(find_boundaries(smoothed, t1))
                < Len(find_boundaries(smoothed, t2))

\* the 0-based indices whose value is strictly below the threshold
BelowThreshold(series, threshold) ==
    {j \in 0..(Len(series) - 1) :
        series[j + 1][1] < threshold * series[j + 1][2]}

\* C14: find_boundaries returns exactly the indices i with
\* smoothed[i] < threshold (a value equal to the threshold is not one), each
\* once, strictly ascending, adjacent ones all kept; an empty series or a
\* series with no value below the threshold gives the empty list.
C14_ExactBoundaries ==
    /\ pc = "boundaries" =>
          /\ SeqRange(boundaries) = BelowThreshold(smoothed, sim_threshold)
          /\ Len(boundaries) = Cardinality(BelowThreshold(smoothed, sim_threshold))
          /\ \A k \in 1..(Len(boundaries) - 1) : boundaries[k] < boundaries[k + 1]
    /\ find_boundaries(<<>>, sim_threshold) = <<>>

\* adjacent indices are both boundaries and a value equal to the threshold
\* is not one
C14_Witness ==
    /\ pc = "boundaries"
    /\ \E k \in 1..(Len(boundaries) - 1) : boundaries[k + 1] = boundaries[k] + 1
    /\ \E j \in 1..Len(smoothed) :
          /\ smoothed[j][1] = sim_threshold * smoothed[j][2]
          /\ (j - 1) \notin SeqRange(boundaries)

\* the ranges that the boundaries bs cut n units into
RangeFrom(bs, j) == IF j = 1 THEN 0 ELSE bs[j - 1] + 1

RangeTo(bs, n, j) == IF j = Len(bs) + 1 THEN n - 1 ELSE bs[j]

CandidateRanges(bs, n) ==
    [j \in 1..(Len(bs) + 1) |-> <<RangeFrom(bs, j), RangeTo(bs, n, j)>>]

\* C15: with min_segment_words = 0 and smooth_window = 1 nothing is merged
\* and the output breaks exactly at the below-threshold indices: k of them
\* give k+1 segments, the segment closed by boundary b ends with unit b and
\* the next one starts with unit b+1.
C15_BreaksAtBoundaries ==
    (pc \in {"enforce", "ranges", "done"} /\ embedder
        /\ min_segment_words = 0 /\ smooth_window = 1) =>
        /\ SeqRange(boundaries) = BelowThreshold(sims, sim_threshold)
        /\ segs = CandidateRanges(boundaries, Len(sentences))
        /\ pc = "done" =>
              /\ Len(segments) = Len(boundaries) + 1
              /\ \A j \in 1..Len(segments) :
                    segments[j] =
                        Join(SubSeq(sentences, RangeFrom(boundaries, j) + 1,
                                    RangeTo(boundaries, Len(sentences), j) + 1))

\* three or more segments were returned with these settings
C15_Witness ==
    /\ pc = "done"
    /\ embedder
    /\ min_segment_words = 0
    /\ smooth_window = 1
    /\ Len(boundaries) >= 2
    /\ Len(segments) = Len(boundaries) + 1

AllCandidatesSmall ==
    \A j \in 1..(Len(boundaries) + 1) :
        WordSum(sentences, RangeFrom(boundaries, j),
                RangeTo(boundaries, Len(sentences), j)) < min_segment_words

\* C16: if min_segment_words is higher than the word count of every
\* materialized range, enforce_min_segment_length returns exactly one range,
\* which covers all units, whatever the number of candidate boundaries.
C16_CollapseToOne ==
    (pc = "ranges" /\ AllCandidatesSmall) =>
        segs = <<<<0, Len(sentences) - 1>>>>

\* several small ranges were collapsed although the units together have
\* enough words
C16_Witness ==
    /\ pc = "ranges"
    /\ AllCandidatesSmall
    /\ Len(boundaries) >= 2
    /\ WordSum(sentences, 0, Len(sentences) - 1) >= min_segment_words
    /\ segs = <<<<0, Len(sentences) - 1>>>>

ScannedSmall ==
    WordSum(sentences, segs[i + 1][1], segs[i + 1][2]) < min_segment_words

EnforcerStep ==
    (pc = "enforce" /\ pc' = "enforce") =>
        LET cur == i + 1
            n == Len(segs)
        IN  IF ScannedSmall /\ i > 0
            THEN /\ Len(segs') = n - 1
                 /\ segs'[cur - 1] = <<segs[cur - 1][1], segs[cur][2]>>
                 /\ \A j \in 1..(cur - 2) : segs'[j] = segs[j]
                 /\ \A j \in cur..(n - 1) : segs'[j] = segs[j + 1]
                 /\ i' = i - 1
            ELSE IF ScannedSmall /\ n > 1
            THEN /\ Len(segs') = n - 1
                 /\ segs'[1] = <<segs[1][1], segs[2][2]>>
                 /\ \A j \in 2..(n - 1) : segs'[j] = segs[j + 1]
                 /\ i' = 0
            ELSE /\ segs' = segs
                 /\ i' = i + 1

\* C17: in a step of the scan an undersized range at position i > 0 is
\* merged into the previous range (which keeps its start and takes this
\* range's end; this range is removed; the scan resumes at i-1); an
\* undersized range at position 0 with a successor absorbs it (the scan
\* stays at 0); an undersized sole range and a range that meets the minimum
\* are left as they are.
C17_StepSemantics == [][EnforcerStep]_vars

\* after an earlier merge, an undersized range with a previous range is
\* about to be scanned
C17_Witness ==
    /\ pc = "enforce"
    /\ i > 0
    /\ i < Len(segs)
    /\ ScannedSmall
    /\ Len(segs) < Len(boundaries) + 1

\* strictly ascending boundaries, all in [0, n-2]
BoundariesValid ==
    /\ \A k \in 1..(Len(boundaries) - 1) : boundaries[k] < boundaries[k + 1]
    /\ \A k \in 1..Len(boundaries) :
          boundaries[k] >= 0 /\ boundaries[k] <= Len(sentences) - 2

MergeKeepsPartition ==
    (pc' = "enforce" /\ BoundariesValid') =>
        /\ IsPartition(segs', Len(sentences'))
        /\ (pc = "enforce" /\ segs' # segs) => Len(segs') = Len(segs) - 1

\* C18: with strictly ascending boundaries in [0, n-2], the materialized
\* ranges are contiguous, ordered and cover [0, n-1], and every merge step
\* gives such a list again, with exactly one range fewer.
C18_MergeKeepsPartition == [][MergeKeepsPartition]_vars

\* two merges were made on valid boundaries and more than one range is left
C18_Witness ==
    /\ pc = "enforce"
    /\ BoundariesValid
    /\ Len(segs) >= 2
    /\ Len(segs) + 2 <= Len(boundaries) + 1
    /\ IsPartition(segs, Len(sentences))

\* C20: the Length Enforcer creates no break: the end of every range but
\* the last, at any time and when the ranges are returned, is one of the
\* candidate boundaries it was given.
C20_NoNewBreaks ==
    pc \in {"enforce", "ranges"} =>
        {segs[k][2] : k \in 1..(Len(segs) - 1)} \subseteq SeqRange(boundaries)

\* some breaks were removed and some are left
C20_Witness ==
    /\ pc = "ranges"
    /\ Len(segs) >= 2
    /\ Len(segs) <= Len(boundaries)

====
